---------------------------- MODULE Spec2Model ----------------------------
(***************************************************************************)
(* Rotation-inference engine of pdf-direction-corrector (src/main.py).     *)
(*                                                                         *)
(* Lengths are whole points.  A normalised coordinate is kept as an        *)
(* integer number of 1/Unit, so the thresholds 0.4 and 0.6 and every       *)
(* centroid of the modelled pages are exact.  Distances are kept in        *)
(* 1/(Unit*Prec), rounded down.                                            *)
(***************************************************************************)
EXTENDS Integers, Sequences, FiniteSets, TLC

(* ------------------------------ bounds --------------------------------- *)
\* native (mediabox) page width and height of the modelled pages
PageW == 10
PageH == 20
\* sub-steps of 1/Unit in which a distance is measured
Prec == 4
\* most pages of one document
MaxPages == 2
\* most anchors of an observation handed to the absolute classifier
MaxAnchors == 2

\* denominator of the normalised coordinates: 2*w divides it for both sides
Unit == 2 * PageW * PageH

(* --------------------------- program constants ------------------------- *)
\* len(test_files)
NumFiles == 4
\* module default of _detection_method
DefaultMethod == 3

Rotations == {0, 90, 180, 270}
Methods == {1, 2, DefaultMethod}

(* ------------------------------- helpers ------------------------------- *)
Abs(n) == IF n < 0 THEN 0 - n ELSE n

\* Python's % with a positive modulus: the result is never negative
PyMod(a, m) == ((a % m) + m) % m

\* ** 0.5 rounded down to a whole number, by Newton's steps from a guess
\* that is not below the root
RECURSIVE Sqrt(_, _)
Sqrt(n, guess) ==
    IF n = 0 \/ guess = 0 THEN 0
    ELSE LET better == CHOOSE y \in {(guess + n \div guess) \div 2} : TRUE
         IN  IF better >= guess THEN guess ELSE Sqrt(n, better)

RECURSIVE SumSeq(_)
SumSeq(s) == IF s = <<>> THEN 0 ELSE Head(s) + SumSeq(Tail(s))

RECURSIVE MinSeq(_)
MinSeq(s) ==
    IF Len(s) = 1 THEN Head(s)
    ELSE LET m == MinSeq(Tail(s)) IN IF Head(s) < m THEN Head(s) ELSE m

\* the same sequence, held as a tuple of computed values
Seq1(s) == s \o <<>>

RECURSIVE Flatten(_)
Flatten(ss) == IF ss = <<>> THEN <<>> ELSE Head(ss) \o Flatten(Tail(ss))

(* --------------------------- str.strip() ------------------------------- *)
RECURSIVE LStrip(_)
LStrip(t) == IF t # <<>> /\ Head(t) = " " THEN LStrip(Tail(t)) ELSE t

RECURSIVE RStrip(_)
RStrip(t) ==
    IF t # <<>> /\ t[Len(t)] = " " THEN RStrip(SubSeq(t, 1, Len(t) - 1)) ELSE t

Strip(t) == RStrip(LStrip(t))

(* ------------------- transform_coordinates_to_original ----------------- *)
\* mutant: the formulas of 90 and 270 are exchanged
transform_coordinates_to_original_exchanged(bbox, page_width, page_height, rotation) ==
    LET x0 == bbox[1]
        y0 == bbox[2]
        x1 == bbox[3]
        y1 == bbox[4]
    IN  CASE rotation = 0   -> <<x0, y0, x1, y1>>
          [] rotation = 270 -> <<y0, page_width - x1, y1, page_width - x0>>
          [] rotation = 180 -> <<page_width - x1, page_height - y1,
                                 page_width - x0, page_height - y0>>
          [] rotation = 90  -> <<page_height - y1, x0, page_height - y0, x1>>
          [] OTHER          -> <<x0, y0, x1, y1>>

transform_coordinates_to_original(bbox, page_width, page_height, rotation) ==
    LET x0 == bbox[1]
        y0 == bbox[2]
        x1 == bbox[3]
        y1 == bbox[4]
    IN  CASE rotation = 0   -> <<x0, y0, x1, y1>>
          [] rotation = 90  -> <<y0, page_width - x1, y1, page_width - x0>>
          [] rotation = 180 -> <<page_width - x1, page_height - y1,
                                 page_width - x0, page_height - y0>>
          [] rotation = 270 -> <<page_height - y1, x0, page_height - y0, x1>>
          [] OTHER          -> <<x0, y0, x1, y1>>


(* ------------- the document layer (PyMuPDF) as the code sees it -------- *)
\* A page's text in native space: a sequence of blocks, each with or
\* without a "lines" key and with the spans of its lines in reading order.
Span(x0, y0, x1, y1, t) == [bbox |-> <<x0, y0, x1, y1>>, text |-> t]
TextBlock(spans) == [lines |-> TRUE, spans |-> spans]
ImageBlock == [lines |-> FALSE, spans |-> <<>>]

LongText == <<"a", "b", "c", "d">>
PaddedText == <<" ", "a", "b", "c", " ">>
ShortText == <<" ", "a", "b", " ">>
BlankText == <<" ", " ", " ">>

\* no block at all
LayoutNone == <<>>
\* blocks, but no span longer than two characters
LayoutNoise == <<ImageBlock, TextBlock(<<Span(1, 1, 2, 2, ShortText),
                                         Span(3, 1, 4, 2, BlankText)>>)>>
\* text in the upper left of the upright page
LayoutUpperLeft == <<TextBlock(<<Span(1, 2, 5, 4, LongText),
                                 Span(1, 5, 4, 7, PaddedText),
                                 Span(8, 18, 9, 19, ShortText)>>)>>
\* text in the lower right of the upright page
LayoutLowerRight == <<ImageBlock,
                      TextBlock(<<Span(6, 15, 9, 17, LongText)>>),
                      TextBlock(<<Span(5, 17, 9, 19, LongText)>>)>>
\* text in the lower left
LayoutLowerLeft == <<TextBlock(<<Span(1, 14, 3, 16, PaddedText),
                                 Span(1, 17, 4, 19, LongText)>>)>>
\* text in the upper right
LayoutUpperRight == <<TextBlock(<<Span(7, 1, 9, 3, LongText)>>)>>
\* text in the middle of the page
LayoutCentre == <<TextBlock(<<Span(4, 9, 6, 11, LongText)>>)>>

Layouts == {LayoutNone, LayoutNoise, LayoutUpperLeft, LayoutLowerRight,
            LayoutLowerLeft, LayoutUpperRight}

\* a native box as the document layer reports it on a page shown rotated
ForwardRotation(bbox, rotation) ==
    LET x0 == bbox[1]
        y0 == bbox[2]
        x1 == bbox[3]
        y1 == bbox[4]
    IN  CASE rotation = 90  -> <<PageH - y1, x0, PageH - y0, x1>>
          [] rotation = 180 -> <<PageW - x1, PageH - y1, PageW - x0, PageH - y0>>
          [] rotation = 270 -> <<y0, PageW - x1, y1, PageW - x0>>
          [] OTHER          -> <<x0, y0, x1, y1>>

DisplaySpans(spans, rotation) ==
    Seq1([i \in 1..Len(spans) |->
        [bbox |-> ForwardRotation(spans[i].bbox, rotation), text |-> spans[i].text]])

\* page.get_text("dict")["blocks"]
DisplayBlocks(layout, rotation) ==
    Seq1([i \in 1..Len(layout) |->
        [lines |-> layout[i].lines, spans |-> DisplaySpans(layout[i].spans, rotation)]])

\* page.rect: width and height of the page as displayed
PageRect(rotation) ==
    IF rotation \in {90, 270} THEN [width |-> PageH, height |-> PageW]
    ELSE [width |-> PageW, height |-> PageH]

\* page.mediabox
MediaBox == [width |-> PageW, height |-> PageH]

\* The page object handed to the analysis: rotation metadata, text and
\* boxes; mediabox_ok is FALSE when reading page.mediabox raises.
Page(rotation, layout, mediabox_ok) ==
    [rotation |-> rotation,
     blocks |-> DisplayBlocks(layout, rotation),
     rect |-> PageRect(rotation),
     mediabox_ok |-> mediabox_ok]

(* ------------------------- extract_text_positions ---------------------- *)
Normalize(lo, hi, size) == (lo + hi) * (Unit \div (2 * size))

SpanPositions(spans, page, original_width, original_height) ==
    LET kept == SelectSeq(spans, LAMBDA sp : Len(Strip(sp.text)) > 2)
    IN  Seq1([i \in 1..Len(kept) |->
            LET original_bbox ==
                    transform_coordinates_to_original(
                        kept[i].bbox, page.rect.width, page.rect.height, page.rotation)
            IN  [text |-> Strip(kept[i].text),
                 normalized_x |-> Normalize(original_bbox[1], original_bbox[3], original_width),
                 normalized_y |-> Normalize(original_bbox[2], original_bbox[4], original_height),
                 original_bbox |-> original_bbox]])

extract_text_positions(page) ==
    IF page.blocks = <<>> THEN <<>>
    ELSE LET original_width ==
                 IF page.mediabox_ok THEN MediaBox.width ELSE page.rect.width
             original_height ==
                 IF page.mediabox_ok THEN MediaBox.height ELSE page.rect.height
             with_lines == SelectSeq(page.blocks, LAMBDA b : b.lines)
         IN  Flatten(Seq1([i \in 1..Len(with_lines) |->
                         SpanPositions(with_lines[i].spans, page,
                                       original_width, original_height)]))

(* ------------------------ analyze_absolute_position -------------------- *)
\* mutant: a mean on a threshold counts as beyond it
analyze_absolute_position_inclusive(positions) ==
    IF positions = <<>> THEN 0
    ELSE LET n == Len(positions)
             sx == 10 * SumSeq(Seq1([i \in 1..n |-> positions[i].normalized_x]))
             sy == 10 * SumSeq(Seq1([i \in 1..n |-> positions[i].normalized_y]))
             lo == 4 * Unit * n
             hi == 6 * Unit * n
         IN  IF sy <= lo /\ sx <= hi THEN 0
             ELSE IF sy >= hi /\ sx >= lo THEN 180
             ELSE IF sx <= lo /\ sy >= lo THEN 0 - 90
             ELSE IF sx >= hi /\ sy <= hi THEN 90
             ELSE 0

\* avg < 0.4 is 10 * sum < 4 * Unit * len, and so on
analyze_absolute_position(positions) ==
    IF positions = <<>> THEN 0
    ELSE LET n == Len(positions)
             sx == 10 * SumSeq(Seq1([i \in 1..n |-> positions[i].normalized_x]))
             sy == 10 * SumSeq(Seq1([i \in 1..n |-> positions[i].normalized_y]))
             lo == 4 * Unit * n
             hi == 6 * Unit * n
         IN  IF sy < lo /\ sx < hi THEN 0
             ELSE IF sy > hi /\ sx > lo THEN 180
             ELSE IF sx < lo /\ sy > lo THEN 0 - 90
             ELSE IF sx > hi /\ sy < hi THEN 90
             ELSE 0

(* ----------------------- apply_rotation_to_positions ------------------- *)
apply_rotation_to_positions(positions, rotation_angle) ==
    Seq1([i \in 1..Len(positions) |->
        LET x == positions[i].normalized_x
            y == positions[i].normalized_y
        IN  [text |-> positions[i].text,
             normalized_x |-> CASE rotation_angle = 0   -> x
                                [] rotation_angle = 90  -> Unit - y
                                [] rotation_angle = 180 -> Unit - x
                                [] rotation_angle = 270 -> y
                                [] OTHER                -> x,
             normalized_y |-> CASE rotation_angle = 0   -> y
                                [] rotation_angle = 90  -> x
                                [] rotation_angle = 180 -> Unit - y
                                [] rotation_angle = 270 -> Unit - x
                                [] OTHER                -> y]])

(* ---------------------- calculate_position_similarity ------------------ *)
\* distance of two anchors in 1/(Unit*Prec)
Distance(pos1, pos2) ==
    LET dx == Abs(pos1.normalized_x - pos2.normalized_x)
        dy == Abs(pos1.normalized_y - pos2.normalized_y)
    IN  Sqrt((dx * dx + dy * dy) * Prec * Prec, (dx + dy) * Prec)

\* max(0, 1 - best_distance * 2) in 1/(Unit*Prec)
Similarity(pos1, positions2) ==
    LET best_distance ==
            MinSeq(Seq1([j \in 1..Len(positions2) |-> Distance(pos1, positions2[j])]))
        s == Unit * Prec - 2 * best_distance
    IN  IF s > 0 THEN s ELSE 0

\* the score total_similarity / compared_count as a fraction
calculate_position_similarity(positions1, positions2) ==
    IF Len(positions1) = 0 \/ Len(positions2) = 0 THEN [num |-> 0, den |-> 1]
    ELSE [num |-> SumSeq(Seq1([i \in 1..Len(positions1) |->
                                   Similarity(positions1[i], positions2)])),
          den |-> Len(positions1)]

ScoreLess(a, b) == a.num * b.den < b.num * a.den

(* -------------------------- compare_with_reference --------------------- *)
TestRotations == <<0, 90, 180, 270>>

rotation_scores(current_positions, reference_positions) ==
    Seq1([i \in 1..Len(TestRotations) |->
        calculate_position_similarity(
            apply_rotation_to_positions(current_positions, TestRotations[i]),
            reference_positions)])

\* mutant: an equal later score replaces an earlier one
best_rotation_last(scores) ==
    LET i == CHOOSE k \in 1..Len(scores) :
                 /\ \A j \in 1..Len(scores) : ~ScoreLess(scores[k], scores[j])
                 /\ \A j \in (k + 1)..Len(scores) : ScoreLess(scores[j], scores[k])
    IN  TestRotations[i]

\* max(rotation_scores, key=rotation_scores.get): the first key, in insertion
\* order, that no other key beats
best_rotation(scores) ==
    LET i == CHOOSE k \in 1..Len(scores) :
                 /\ \A j \in 1..Len(scores) : ~ScoreLess(scores[k], scores[j])
                 /\ \A j \in 1..(k - 1) : ScoreLess(scores[j], scores[k])
    IN  TestRotations[i]

\* mutant: the rotation is returned without folding
FoldRotation_none(needed_rotation) == needed_rotation

\* needed_rotation > 180 becomes negative
FoldRotation(needed_rotation) ==
    IF needed_rotation > 180 THEN needed_rotation - 360 ELSE needed_rotation

compare_with_reference(current_positions, reference_positions) ==
    IF Len(current_positions) = 0 \/ Len(reference_positions) = 0 THEN 0
    ELSE LET best == best_rotation(rotation_scores(current_positions, reference_positions))
             \* no position carries a 'current_rotation' key: .get gives 0
             current_rotation == 0
         IN  FoldRotation(PyMod(best - current_rotation, 360))

(* ------------------------ get_rotation_from_metadata ------------------- *)
get_rotation_from_metadata(pdf_rotation) ==
    IF pdf_rotation = 90 THEN 0 - 90
    ELSE IF pdf_rotation = 180 THEN 180
    ELSE IF pdf_rotation = 270 THEN 90
    ELSE 0

(* ------------------- _reference_positions: None or a list -------------- *)
None == [is_none |-> TRUE, list |-> <<>>]
List(positions) == [is_none |-> FALSE, list |-> positions]

(* ------------------- analyze_text_orientation_comparative -------------- *)
\* mutant: the reference is tested before the emptiness of the page
analyze_text_orientation_comparative_reference_first(page, reference_list) ==
    LET pdf_rotation == page.rotation
        current_positions == extract_text_positions(page)
    IN  IF reference_list # <<>>
        THEN compare_with_reference(current_positions, reference_list)
        ELSE IF current_positions = <<>> THEN get_rotation_from_metadata(pdf_rotation)
        ELSE analyze_absolute_position(current_positions)

\* reference_positions is a list here; an empty one is falsy
analyze_text_orientation_comparative(page, reference_list) ==
    LET pdf_rotation == page.rotation
        current_positions == extract_text_positions(page)
    IN  IF current_positions = <<>> THEN get_rotation_from_metadata(pdf_rotation)
        ELSE IF reference_list # <<>>
             THEN compare_with_reference(current_positions, reference_list)
             ELSE analyze_absolute_position(current_positions)

(* ------------------------ analyze_text_orientation --------------------- *)
\* Each branch gives the value returned, the value _reference_positions has
\* afterwards and the positions the branch extracted.
AbsoluteBranch(page, reference) ==
    LET positions == extract_text_positions(page)
    IN  [ret |-> analyze_absolute_position(positions),
         reference |-> reference,
         positions |-> positions]

\* mutant: a page without text leaves _reference_positions None
RelativeBranch_keeps_none(page, reference) ==
    IF reference.is_none
    THEN LET captured == extract_text_positions(page)
         IN  IF captured # <<>>
             THEN [ret |-> 0, reference |-> List(captured), positions |-> captured]
             ELSE [ret |-> analyze_absolute_position(captured),
                   reference |-> None,
                   positions |-> captured]
    ELSE [ret |-> analyze_text_orientation_comparative(page, reference.list),
          reference |-> reference,
          positions |-> extract_text_positions(page)]

RelativeBranch(page, reference) ==
    IF reference.is_none
    THEN LET captured == extract_text_positions(page)
         IN  IF captured # <<>>
             THEN [ret |-> 0, reference |-> List(captured), positions |-> captured]
             ELSE LET positions == extract_text_positions(page)
                  IN  [ret |-> analyze_absolute_position(positions),
                       reference |-> List(captured),
                       positions |-> positions]
    ELSE [ret |-> analyze_text_orientation_comparative(page, reference.list),
          reference |-> reference,
          positions |-> extract_text_positions(page)]

\* mutant: the captured page is classified instead of being taken as upright
AutoBranch_classifies_capture(page, reference) ==
    IF reference.is_none
    THEN LET captured == extract_text_positions(page)
         IN  [ret |-> analyze_absolute_position(captured),
              reference |-> List(captured),
              positions |-> captured]
    ELSE [ret |-> analyze_text_orientation_comparative(page, reference.list),
          reference |-> reference,
          positions |-> extract_text_positions(page)]

AutoBranch(page, reference) ==
    IF reference.is_none
    THEN LET captured == extract_text_positions(page)
         IN  IF captured # <<>>
             THEN [ret |-> 0, reference |-> List(captured), positions |-> captured]
             ELSE LET positions == extract_text_positions(page)
                  IN  [ret |-> analyze_absolute_position(positions),
                       reference |-> List(captured),
                       positions |-> positions]
    ELSE [ret |-> analyze_text_orientation_comparative(page, reference.list),
          reference |-> reference,
          positions |-> extract_text_positions(page)]

\* mutant: every page with text is captured anew
analyze_text_orientation_recapture(page, method, reference) ==
    LET captured == extract_text_positions(page)
    IN  IF method = 1 THEN AbsoluteBranch(page, reference)
        ELSE IF captured # <<>>
             THEN [ret |-> 0, reference |-> List(captured), positions |-> captured]
             ELSE [ret |-> analyze_absolute_position(captured),
                   reference |-> reference,
                   positions |-> captured]

analyze_text_orientation(page, method, reference) ==
    IF method = 1 THEN AbsoluteBranch(page, reference)
    ELSE IF method = 2 THEN RelativeBranch(page, reference)
    ELSE AutoBranch(page, reference)

(* ---------------------------- the applicator --------------------------- *)
\* mutant: the suggestion is subtracted
new_rotation_subtract(current_rotation, suggested_rotation) ==
    PyMod(current_rotation - suggested_rotation, 360)

\* new_rotation = (current_rotation + suggested_rotation) % 360
new_rotation(current_rotation, suggested_rotation) ==
    PyMod(current_rotation + suggested_rotation, 360)

\* the rotation the page has and the value of corrected after the
\* if suggested_rotation != 0 / else of the loop body
apply_suggestion(current_rotation, suggested_rotation, was_corrected) ==
    IF suggested_rotation # 0
    THEN [rotation |-> new_rotation(current_rotation, suggested_rotation),
          corrected |-> TRUE]
    ELSE [rotation |-> current_rotation, corrected |-> was_corrected]

(* ------------------------- inputs of the model ------------------------- *)
RECURSIVE SeqsUpTo(_, _)
SeqsUpTo(S, n) ==
    IF n = 0 THEN {<<>>}
    ELSE LET shorter == SeqsUpTo(S, n - 1)
         IN  shorter \cup {Append(q, x) : q \in shorter, x \in S}

\* the documents fitz.open can give: one to MaxPages pages, each with its
\* rotation metadata
Documents == SeqsUpTo(Rotations, MaxPages) \ {<<>>}

\* the collaborator call that raises while a page is handled
PageFaults == {"none", "rotation", "get_text", "set_rotation"}

\* the page object of a loaded page: reading page.mediabox does not raise
LoadedPage(rotation, layout) == Page(rotation, layout, TRUE)

\* every list extract_text_positions gives on a page of the model
Observations ==
    {extract_text_positions(LoadedPage(r, l)) : r \in Rotations, l \in Layouts}

\* every value _reference_positions takes
References == {None} \cup {List(o) : o \in Observations}

\* analyze_text_orientation(page) for every page, method and reference,
\* computed once
Analysis ==
    [m \in Methods, r \in Rotations, l \in Layouts, ref \in References |->
        analyze_text_orientation(LoadedPage(r, l), m, ref)]

(* ------------------------- the test files of main --------------------- *)
\* rotation_configs: the rotation given to the one page of normal.pdf,
\* left_rotated.pdf, right_rotated.pdf, upside_down.pdf, in the order of
\* test_files
rotation_configs == <<0, 90, 270, 180>>

\* the text of base.pdf: lines drawn downwards from the top left
BaseLayout == LayoutUpperLeft

\* the document fitz.open gives for the i-th test file
FixtureDocument(i) == <<rotation_configs[i]>>

(* -------------------------------- state -------------------------------- *)
VARIABLES
    _detection_method,     \* the global of that name
    _reference_positions,  \* the global of that name
    pc,                    \* "idle", "loop" (main's for), "pages", "save"
    file_idx,              \* position in test_files, from 1
    doc,                   \* rotation metadata of the open document's pages
    page_num,              \* index of the next page of the loop, from 0
    corrected,             \* the local flag of detect_and_correct_rotation
    visited,               \* loop bodies run on the open document
    save_requests,         \* doc.save calls made by the last call
    output,                \* the pages the last call wrote with doc.save
    last_return,           \* what the last call returned: "True", "False"
    doc_error,             \* where the last call raised: "open" or "save"
    call_idx,              \* file_idx when the last call was made
    page_status,           \* last loop body: "none", "ok" or "error"
    page_fault,            \* which collaborator call raised in it
    entry_rotation,        \* rotation metadata of that page before the body
    suggested_rotation,    \* the local of the same name
    page_positions,             \* what the analysis extracted from that page
    reference_at_entry,    \* _reference_positions before that body
    on_batch,              \* every file of this run so far was the test file
                           \* of its place, handled and saved without failure
    fn,                    \* the function applied on its own, or "none"
    args,                  \* the arguments it is applied to
    value                  \* what it returned

vars == <<_detection_method, _reference_positions, pc, file_idx, doc, page_num,
          corrected, visited, save_requests, output, last_return, doc_error,
          call_idx, page_status, page_fault, entry_rotation, suggested_rotation,
          page_positions, reference_at_entry, on_batch, fn, args, value>>

\* the state of the program
program == <<_detection_method, _reference_positions, pc, file_idx, doc,
             page_num, corrected, visited, save_requests, output, last_return,
             doc_error, call_idx, page_status, page_fault, entry_rotation,
             suggested_rotation, page_positions, reference_at_entry, on_batch>>

\* a function applied on its own, outside a run of main
pure == <<fn, args, value>>

NoArgs == [kind |-> "none"]
NoValue == <<>>

globals == <<_detection_method, _reference_positions>>

\* what is known of the last call of detect_and_correct_rotation
NoCall ==
    /\ doc' = <<>>
    /\ page_num' = 0
    /\ corrected' = FALSE
    /\ visited' = 0
    /\ save_requests' = 0
    /\ output' = <<>>
    /\ last_return' = "none"
    /\ doc_error' = "none"
    /\ call_idx' = 0

\* what is known of the last loop body
NoPage ==
    /\ page_status' = "none"
    /\ page_fault' = "none"
    /\ entry_rotation' = 0
    /\ suggested_rotation' = 0
    /\ page_positions' = <<>>
    /\ reference_at_entry' = None

\* The module is loaded with _detection_method = 3 and
\* _reference_positions = None.  No definition in force assigns
\* _detection_method; 1 and 2 are the values an embedding caller sets
\* before a run to select the ABSOLUTE or RELATIVE mode.
ProgramInit ==
    /\ _detection_method \in Methods
    /\ _reference_positions = None
    /\ pc = "idle"
    /\ file_idx = 1
    /\ doc = <<>>
    /\ page_num = 0
    /\ corrected = FALSE
    /\ visited = 0
    /\ save_requests = 0
    /\ output = <<>>
    /\ last_return = "none"
    /\ doc_error = "none"
    /\ call_idx = 0
    /\ page_status = "none"
    /\ page_fault = "none"
    /\ entry_rotation = 0
    /\ suggested_rotation = 0
    /\ page_positions = <<>>
    /\ reference_at_entry = None
    /\ on_batch = FALSE

Init ==
    /\ ProgramInit
    /\ fn = "none"
    /\ args = NoArgs
    /\ value = NoValue

(* --------------------------------- main -------------------------------- *)
\* What main assigns to _reference_positions before its loop.  The
\* definition of main in force is the later one (lines 875-947), which
\* assigns neither global; the earlier one (lines 345-356) is replaced by it
\* when the module is loaded.
MainReference(reference) == reference

\* main up to its for loop; setup_ok is FALSE when the test files cannot be
\* made and main returns
Main(setup_ok) ==
    /\ pc = "idle"
    /\ pc' = IF setup_ok THEN "loop" ELSE "idle"
    /\ _reference_positions' = MainReference(_reference_positions)
    /\ file_idx' = 1
    /\ on_batch' = setup_ok
    /\ UNCHANGED pure
    /\ NoCall
    /\ NoPage
    /\ UNCHANGED _detection_method

\* os.path.exists(input_path) is false: continue
SkipMissing ==
    /\ pc = "loop"
    /\ file_idx <= NumFiles
    /\ file_idx' = file_idx + 1
    /\ on_batch' = FALSE
    /\ UNCHANGED pure
    /\ NoCall
    /\ NoPage
    /\ UNCHANGED <<globals, pc>>

\* the for loop of main is exhausted
MainReturn ==
    /\ pc = "loop"
    /\ file_idx > NumFiles
    /\ pc' = "idle"
    /\ NoCall
    /\ NoPage
    /\ UNCHANGED <<globals, file_idx, on_batch, pure>>

(* ----------------------- detect_and_correct_rotation ------------------- *)
\* mutant: the failure ends main's loop
DocumentExcept_abort == [ret |-> "False", pc |-> "idle"]

\* except Exception as e of the function: what it returns and where main
\* goes on
DocumentExcept == [ret |-> "False", pc |-> "loop"]

\* fitz.open(input_pdf) raises
OpenFails ==
    /\ pc = "loop"
    /\ file_idx <= NumFiles
    /\ call_idx' = file_idx
    /\ doc_error' = "open"
    /\ last_return' = DocumentExcept.ret
    /\ pc' = DocumentExcept.pc
    /\ file_idx' = file_idx + 1
    /\ doc' = <<>>
    /\ page_num' = 0
    /\ corrected' = FALSE
    /\ visited' = 0
    /\ save_requests' = 0
    /\ output' = <<>>
    /\ on_batch' = FALSE
    /\ UNCHANGED pure
    /\ NoPage
    /\ UNCHANGED globals

\* fitz.open(input_pdf) gives d; corrected = False
Open(d) ==
    /\ pc = "loop"
    /\ file_idx <= NumFiles
    /\ call_idx' = file_idx
    /\ doc_error' = "none"
    /\ last_return' = "none"
    /\ doc' = d
    /\ page_num' = 0
    /\ corrected' = FALSE
    /\ visited' = 0
    /\ save_requests' = 0
    /\ output' = <<>>
    /\ pc' = "pages"
    /\ on_batch' = (on_batch /\ d = FixtureDocument(file_idx))
    /\ UNCHANGED pure
    /\ NoPage
    /\ UNCHANGED <<globals, file_idx>>

\* mutant: break instead of continue
PageExcept_break(n, pages) == pages

\* except Exception as page_error ... continue: the index of the page the
\* loop takes up after page n of a document of `pages` pages raised
PageExcept(n, pages) == n + 1

\* where the function stands when the loop is at index n
LoopAt(n) == IF n < Len(doc) THEN "pages" ELSE "save"

\* One pass of the page loop.  layout is the text the page holds; fault
\* names the collaborator call that raises on this page; a set_rotation
\* that would raise is not called when nothing is suggested, and the page
\* is then the page without a fault.
ProcessPage(layout, fault) ==
    /\ pc = "pages"
    /\ page_num < Len(doc)
    /\ LET current_rotation == doc[page_num + 1]
           a == Analysis[_detection_method, current_rotation, layout, _reference_positions]
           applied == apply_suggestion(current_rotation, a.ret, corrected)
       IN  /\ reference_at_entry' = _reference_positions
           /\ entry_rotation' = current_rotation
           /\ page_fault' = fault
           /\ IF fault \in {"rotation", "get_text"}
              THEN \* page.rotation or page.get_text raises before any change
                   /\ page_status' = "error"
                   /\ page_num' = PageExcept(page_num, Len(doc))
                   /\ UNCHANGED <<doc, _reference_positions, corrected,
                                  suggested_rotation, page_positions>>
              ELSE IF fault = "set_rotation" /\ a.ret # 0
              THEN \* page.set_rotation raises: the analysis has run
                   /\ page_status' = "error"
                   /\ page_num' = PageExcept(page_num, Len(doc))
                   /\ _reference_positions' = a.reference
                   /\ suggested_rotation' = a.ret
                   /\ page_positions' = a.positions
                   /\ UNCHANGED <<doc, corrected>>
              ELSE /\ fault = "none"
                   /\ page_status' = "ok"
                   /\ doc' = [doc EXCEPT ![page_num + 1] = applied.rotation]
                   /\ page_num' = page_num + 1
                   /\ _reference_positions' = a.reference
                   /\ suggested_rotation' = a.ret
                   /\ page_positions' = a.positions
                   /\ corrected' = applied.corrected
    /\ visited' = visited + 1
    /\ pc' = LoopAt(page_num')
    /\ on_batch' = (on_batch /\ layout = BaseLayout /\ fault = "none")
    /\ UNCHANGED pure
    /\ UNCHANGED <<_detection_method, file_idx, save_requests, output, last_return,
                   doc_error, call_idx>>

\* mutant: only a modified document is written
SaveRequested_if_corrected(was_corrected) == was_corrected

\* whether doc.save is requested once the loop is over: it is, whatever
\* corrected is
SaveRequested(was_corrected) == TRUE

\* doc.save(output_pdf), doc.close(), return corrected; or doc.save raises
Save(ok) ==
    /\ pc = "save"
    /\ IF SaveRequested(corrected)
       THEN /\ save_requests' = save_requests + 1
            /\ IF ok
               THEN /\ output' = doc
                    /\ doc_error' = "none"
                    /\ last_return' = IF corrected THEN "True" ELSE "False"
                    /\ pc' = "loop"
               ELSE /\ output' = <<>>
                    /\ doc_error' = "save"
                    /\ last_return' = DocumentExcept.ret
                    /\ pc' = DocumentExcept.pc
       ELSE /\ ok
            /\ doc_error' = "none"
            /\ last_return' = IF corrected THEN "True" ELSE "False"
            /\ pc' = "loop"
            /\ UNCHANGED <<save_requests, output>>
    /\ file_idx' = file_idx + 1
    /\ on_batch' = (on_batch /\ ok)
    /\ UNCHANGED pure
    /\ NoPage
    /\ UNCHANGED <<globals, doc, page_num, corrected, visited, call_idx>>

Next ==
    \/ \E setup_ok \in BOOLEAN : Main(setup_ok)
    \/ SkipMissing
    \/ MainReturn
    \/ OpenFails
    \/ \E d \in Documents : Open(d)
    \/ \E layout \in Layouts, fault \in PageFaults : ProcessPage(layout, fault)
    \/ \E ok \in BOOLEAN : Save(ok)

Spec == Init /\ [][Next]_vars

(* ------------------- the functions applied on their own ---------------- *)
\* every box with whole corners inside the native page
Boxes ==
    {b \in (0..PageW) \X (0..PageH) \X (0..PageW) \X (0..PageH) :
        b[1] <= b[3] /\ b[2] <= b[4]}

\* a native box and the rotation the page is shown with
TransformArgs(boxes) ==
    {[kind |-> "bbox", bbox |-> b, rotation |-> r] : b \in boxes, r \in Rotations}

\* normalised coordinates on the tenths 0, 0.2, 0.4, 0.5, 0.6, 0.8 and 1
Tenths == {(k * Unit) \div 10 : k \in {0, 2, 4, 5, 6, 8, 10}}

\* an entry of the list extract_text_positions gives, at a normalised place
Anchor(x, y) ==
    [text |-> LongText, normalized_x |-> x, normalized_y |-> y,
     original_bbox |-> <<0, 0, 0, 0>>]

\* the observations of up to n anchors on those places
AnchorLists(n) == SeqsUpTo({Anchor(x, y) : x \in Tenths, y \in Tenths}, n)

AbsoluteArgs(n) == {[kind |-> "positions", positions |-> o] : o \in AnchorLists(n)}

\* places of anchors handed to the comparator: upper left, lower right,
\* lower left, middle of the top, middle of the bottom, centre
ComparePlaces ==
    {Anchor((2 * Unit) \div 10, (2 * Unit) \div 10),
     Anchor((8 * Unit) \div 10, (8 * Unit) \div 10),
     Anchor((2 * Unit) \div 10, (8 * Unit) \div 10),
     Anchor((5 * Unit) \div 10, (2 * Unit) \div 10),
     Anchor((5 * Unit) \div 10, (8 * Unit) \div 10),
     Anchor((5 * Unit) \div 10, (5 * Unit) \div 10)}

\* the lists of one and of two of them
CompareLists ==
    {<<a>> : a \in ComparePlaces} \cup {<<a, b>> : a, b \in ComparePlaces}

CompareArgs ==
    {[kind |-> "pair", current_positions |-> c, reference_list |-> r] :
        c \in CompareLists, r \in CompareLists}

\* the value of _reference_positions two controllers start from, one with
\* _detection_method 2 and one with _detection_method 3
ModeArgs == {[kind |-> "reference", reference |-> ref] : ref \in References}

\* a controller state (mode and reference), the native text of a page,
\* whether page.mediabox can be read, and two rotations the page is shown
\* with
RotationArgs ==
    {[kind |-> "rotations", method |-> m, reference |-> ref, layout |-> l,
      mediabox_ok |-> ok, first |-> r1, second |-> r2] :
        m \in Methods, ref \in References, l \in Layouts, ok \in BOOLEAN,
        r1 \in Rotations, r2 \in Rotations}

\* the arguments of each function
FunctionArgs(kind) ==
    CASE kind = "bbox"      -> TransformArgs(Boxes)
      [] kind = "positions" -> AbsoluteArgs(MaxAnchors)
      [] kind = "pair"      -> CompareArgs
      [] kind = "reference" -> ModeArgs
      [] kind = "rotations" -> RotationArgs

Kinds == {"bbox", "positions", "pair", "reference", "rotations"}

FunctionInit ==
    /\ ProgramInit
    /\ _detection_method = DefaultMethod
    /\ fn = "none"
    /\ \E kind \in Kinds : args \in FunctionArgs(kind)
    /\ value = NoValue

\* transform_coordinates_to_original on the box as the page shows it, with
\* page.rect.width, page.rect.height and page.rotation
ApplyTransform ==
    /\ fn = "none"
    /\ args.kind = "bbox"
    /\ fn' = "transform_coordinates_to_original"
    /\ value' = transform_coordinates_to_original(
                    ForwardRotation(args.bbox, args.rotation),
                    PageRect(args.rotation).width,
                    PageRect(args.rotation).height,
                    args.rotation)
    /\ UNCHANGED <<program, args>>

\* analyze_absolute_position(positions)
ApplyAbsolute ==
    /\ fn = "none"
    /\ args.kind = "positions"
    /\ fn' = "analyze_absolute_position"
    /\ value' = analyze_absolute_position(args.positions)
    /\ UNCHANGED <<program, args>>

\* compare_with_reference(current_positions, reference_positions), with
\* the rotation_scores it fills on the way
ApplyCompare ==
    /\ fn = "none"
    /\ args.kind = "pair"
    /\ fn' = "compare_with_reference"
    /\ value' = [rotation_scores |->
                     rotation_scores(args.current_positions, args.reference_list),
                 ret |-> compare_with_reference(args.current_positions,
                                                args.reference_list)]
    /\ UNCHANGED <<program, args>>

\* analyze_text_orientation(page) on the next page of one sequence of pages,
\* once with _detection_method 2 and once with _detection_method 3, each
\* with the _reference_positions its own earlier calls left
ApplyModes(rotation, layout) ==
    /\ args.kind = "reference"
    /\ fn \in {"none", "analyze_text_orientation"}
    /\ fn' = "analyze_text_orientation"
    /\ LET relative_reference ==
               IF fn = "none" THEN args.reference ELSE value.relative.reference
           auto_reference ==
               IF fn = "none" THEN args.reference ELSE value.auto.reference
       IN  value' = [relative |-> Analysis[2, rotation, layout, relative_reference],
                     auto |-> Analysis[DefaultMethod, rotation, layout, auto_reference]]
    /\ UNCHANGED <<program, args>>

\* analyze_text_orientation(page) from one controller state on the page
\* shown with the first rotation and on the page shown with the second
ApplyRotations ==
    /\ fn = "none"
    /\ args.kind = "rotations"
    /\ fn' = "analyze_text_orientation on two rotations"
    /\ value' =
           [first |-> analyze_text_orientation(
                          Page(args.first, args.layout, args.mediabox_ok),
                          args.method, args.reference),
            second |-> analyze_text_orientation(
                          Page(args.second, args.layout, args.mediabox_ok),
                          args.method, args.reference)]
    /\ UNCHANGED <<program, args>>

FunctionNext ==
    \/ ApplyTransform
    \/ ApplyAbsolute
    \/ ApplyCompare
    \/ ApplyRotations
    \/ \E rotation \in Rotations, layout \in Layouts : ApplyModes(rotation, layout)

FunctionSpec == FunctionInit /\ [][FunctionNext]_vars

(* ------------------------------ vocabulary ----------------------------- *)
\* a ReferenceSet exists: a non-empty observation is held as the baseline
HasReference(reference) == ~reference.is_none /\ reference.list # <<>>

\* the run is in RELATIVE or AUTO mode
Bootstrap == _detection_method \in {2, 3}

\* the last loop body ran the analysis to its end
Analysed == page_status = "ok" \/ (page_status = "error" /\ page_fault = "set_rotation")

\* the four canonical corrective deltas
Deltas == {0 - 90, 0, 90, 180}

\* a call of detect_and_correct_rotation that opened its document has returned
Returned == pc = "loop" /\ doc # <<>>

(* ---------------------------------- C1 --------------------------------- *)
\* C1: in RELATIVE or AUTO mode, a page processed while no ReferenceSet
\* exists is decided by the absolute classifier and leaves the ReferenceSet
\* unset when its observation is empty, and becomes the ReferenceSet when
\* its observation is not empty (so capture is retried on later pages).
C1_CaptureRetried ==
    (Bootstrap /\ Analysed /\ ~HasReference(reference_at_entry)) =>
        IF page_positions = <<>>
        THEN /\ suggested_rotation = analyze_absolute_position(page_positions)
             /\ ~HasReference(_reference_positions)
        ELSE _reference_positions = List(page_positions)

(* ---------------------------------- C2 --------------------------------- *)
\* C2 as stated: once a ReferenceSet exists, the suggested delta of every
\* page is the comparator's result for its observation against the
\* ReferenceSet, an empty observation included (for which that is 0).
C2_AlwaysComparator ==
    (Bootstrap /\ Analysed /\ HasReference(reference_at_entry)) =>
        suggested_rotation =
            compare_with_reference(page_positions, reference_at_entry.list)

\* C2 amended: once a ReferenceSet exists, the suggested delta of a page
\* with a non-empty observation is the comparator's result against the
\* ReferenceSet; that of a page with an empty observation is the metadata
\* rule's value for the page's rotation (90: -90, 180: 180, 270: 90, else 0).
C2_ComparatorOrMetadata ==
    (Bootstrap /\ Analysed /\ HasReference(reference_at_entry)) =>
        suggested_rotation =
            IF page_positions = <<>>
            THEN CASE entry_rotation = 90  -> 0 - 90
                   [] entry_rotation = 180 -> 180
                   [] entry_rotation = 270 -> 90
                   [] OTHER                -> 0
            ELSE compare_with_reference(page_positions, reference_at_entry.list)

\* a page without text, shown rotated by 90, is handled after the capture
C2_Witness ==
    /\ Bootstrap
    /\ page_status = "ok"
    /\ HasReference(reference_at_entry)
    /\ page_positions = <<>>
    /\ entry_rotation = 90
    /\ suggested_rotation = 0 - 90

(* ---------------------------------- C3 --------------------------------- *)
\* C3: a captured ReferenceSet is never changed and never cleared by any
\* later step, failing steps included.
C3_ReferenceFrozen ==
    [][HasReference(_reference_positions) =>
           _reference_positions' = _reference_positions]_vars

\* a page raised while a ReferenceSet was held, and it is still held
C3_Witness ==
    /\ HasReference(reference_at_entry)
    /\ page_status = "error"
    /\ _reference_positions = reference_at_entry

(* ---------------------------------- C4 --------------------------------- *)
\* C4: when main reaches its loop, before any page of the run is
\* processed, the ReferenceSet is unset.
C4_ResetAtRunStart ==
    (pc = "loop" /\ file_idx = 1) => _reference_positions = None

(* ---------------------------------- C5 --------------------------------- *)
\* C5: the page whose observation is captured as the ReferenceSet gets the
\* suggested delta 0 and keeps its rotation metadata, whatever it is.
C5_CapturePageKept ==
    (Bootstrap /\ page_status # "none" /\ ~HasReference(reference_at_entry)
        /\ HasReference(_reference_positions)) =>
        /\ page_status = "ok"
        /\ _reference_positions = List(page_positions)
        /\ suggested_rotation = 0
        /\ doc[visited] = entry_rotation

\* a page shown rotated by 270 has just been captured
C5_Witness ==
    /\ Bootstrap
    /\ page_status = "ok"
    /\ reference_at_entry = None
    /\ HasReference(_reference_positions)
    /\ entry_rotation = 270
    /\ doc[visited] = 270

C7_DocumentFailureContained ==
    doc_error \in {"open", "save"} =>
        /\ last_return = "False"
        /\ pc = "loop"
        /\ file_idx = call_idx + 1

\* doc.save raised on a corrected document and files remain
C7_Witness ==
    /\ doc_error = "save"
    /\ corrected
    /\ last_return = "False"
    /\ pc = "loop"
    /\ file_idx <= NumFiles

(* ---------------------------------- C8 --------------------------------- *)
\* the value in 0..359 that differs from n by a multiple of 360, for n
\* from -359 to 719
Mod360(n) == IF n < 0 THEN n + 360 ELSE IF n >= 360 THEN n - 360 ELSE n

\* the applicator on every current rotation and every non-zero delta
C8_AllPairs ==
    /\ \A c \in Rotations, d \in Deltas \ {0} :
           /\ apply_suggestion(c, d, FALSE).rotation = Mod360(c + d)
           /\ apply_suggestion(c, d, FALSE).rotation \in Rotations
           /\ apply_suggestion(c, d, FALSE).corrected
    /\ \A c \in Rotations, b \in BOOLEAN :
           apply_suggestion(c, 0, b) = [rotation |-> c, corrected |-> b]
    /\ apply_suggestion(90, 0 - 90, FALSE).rotation = 0
    /\ apply_suggestion(270, 90, FALSE).rotation = 0

\* C8: for current rotations 0, 90, 180, 270 and deltas -90, 0, 90, 180, a
\* non-zero delta sets the page to (current + delta) mod 360, one of the
\* four rotations, and marks the document modified; a zero delta leaves the
\* page as it is; (90, -90) and (270, 90) give 0.
C8_Applicator ==
    /\ page_status = "ok" =>
           IF suggested_rotation # 0
           THEN /\ doc[visited] = Mod360(entry_rotation + suggested_rotation)
                /\ doc[visited] \in Rotations
                /\ corrected
           ELSE doc[visited] = entry_rotation
    /\ C8_AllPairs

\* a page at 90 was given -90 and stands at 0
C8_Witness ==
    /\ page_status = "ok"
    /\ entry_rotation = 90
    /\ suggested_rotation = 0 - 90
    /\ doc[visited] = 0
    /\ corrected

C10_CanonicalDelta ==
    page_status # "none" => suggested_rotation \in Deltas

\* the comparator chose 270 and the delta is -90
C10_Witness ==
    /\ Bootstrap
    /\ page_status = "ok"
    /\ HasReference(reference_at_entry)
    /\ page_positions # <<>>
    /\ suggested_rotation = 0 - 90

(* --------------------------------- C11 --------------------------------- *)
\* C11: in a run over normal.pdf, left_rotated.pdf, right_rotated.pdf and
\* upside_down.pdf, in that order, without a failure and in the mode the
\* module is loaded with, every document written with doc.save has rotation
\* metadata 0 on its page.
C11_BatchUpright ==
    (on_batch /\ _detection_method = DefaultMethod /\ Returned
        /\ doc_error = "none") =>
        \A i \in 1..Len(output) : output[i] = 0

(* --------------------------------- C12 --------------------------------- *)
\* C12: a box inside the native page, rotated forward into display space by
\* a rotation of 0, 90, 180 or 270 and handed to
\* transform_coordinates_to_original with the same rotation and the display
\* width and height, comes back as the native box.
C12_RoundTrip ==
    fn = "transform_coordinates_to_original" => value = args.bbox

\* a box that the rotation by 90 moves has come back
C12_Witness ==
    /\ fn = "transform_coordinates_to_original"
    /\ args.rotation = 90
    /\ args.bbox = <<1, 2, 5, 4>>
    /\ ForwardRotation(args.bbox, args.rotation) = <<PageH - 4, 1, PageH - 2, 5>>
    /\ value = args.bbox

(* --------------------------------- C13 --------------------------------- *)
\* the mean of the coordinates `field` of an observation against a
\* threshold given in tenths
MeanBelow(observation, field, tenths) ==
    10 * SumSeq([i \in 1..Len(observation) |-> observation[i][field]])
        < tenths * Unit * Len(observation)
MeanAbove(observation, field, tenths) ==
    10 * SumSeq([i \in 1..Len(observation) |-> observation[i][field]])
        > tenths * Unit * Len(observation)

\* C13: the absolute classifier gives 0 for an empty observation and
\* otherwise the decision of the first rule that matches of
\* meanY < 0.4 and meanX < 0.6: 0; meanY > 0.6 and meanX > 0.4: 180;
\* meanX < 0.4 and meanY > 0.4: -90; meanX > 0.6 and meanY < 0.6: 90;
\* else 0, every inequality being strict.
C13_AbsoluteRules ==
    fn = "analyze_absolute_position" =>
        LET o == args.positions
        IN  value =
                IF o = <<>> THEN 0
                ELSE IF MeanBelow(o, "normalized_y", 4) /\ MeanBelow(o, "normalized_x", 6)
                THEN 0
                ELSE IF MeanAbove(o, "normalized_y", 6) /\ MeanAbove(o, "normalized_x", 4)
                THEN 180
                ELSE IF MeanBelow(o, "normalized_x", 4) /\ MeanAbove(o, "normalized_y", 4)
                THEN 0 - 90
                ELSE IF MeanAbove(o, "normalized_x", 6) /\ MeanBelow(o, "normalized_y", 6)
                THEN 90
                ELSE 0

\* two anchors with mean (0.8, 0.6): meanY is on the threshold, neither
\* the rule of 180 nor the rule of 90 matches and the decision is 0
C13_Witness ==
    /\ fn = "analyze_absolute_position"
    /\ Len(args.positions) = 2
    /\ 10 * (args.positions[1].normalized_x + args.positions[2].normalized_x) = 16 * Unit
    /\ 10 * (args.positions[1].normalized_y + args.positions[2].normalized_y) = 12 * Unit
    /\ args.positions[1].normalized_y # args.positions[2].normalized_y
    /\ value = 0

(* --------------------------------- C14 --------------------------------- *)
\* the deltas of the best rotations 0, 90, 180, 270
FoldedDeltas == <<0, 90, 180, 0 - 90>>

\* C14: for non-empty current and reference lists the comparator returns
\* the folded delta of the first rotation, in the order 0, 90, 180, 270,
\* whose score no other rotation exceeds: every earlier rotation scores
\* strictly less, every later one at most as much.
C14_FirstBestFolded ==
    fn = "compare_with_reference" =>
        \E k \in 1..4 :
            /\ value.ret = FoldedDeltas[k]
            /\ \A j \in 1..(k - 1) :
                   ScoreLess(value.rotation_scores[j], value.rotation_scores[k])
            /\ \A j \in (k + 1)..4 :
                   ~ScoreLess(value.rotation_scores[k], value.rotation_scores[j])

\* 90, 180 and 270 share the highest score, 0 scores less: the delta is 90
C14_Witness ==
    /\ fn = "compare_with_reference"
    /\ ScoreLess(value.rotation_scores[1], value.rotation_scores[2])
    /\ value.rotation_scores[2] = value.rotation_scores[3]
    /\ value.rotation_scores[3] = value.rotation_scores[4]
    /\ value.ret = 90

(* --------------------------------- C15 --------------------------------- *)
\* C15: a controller in RELATIVE mode and one in AUTO mode, started with
\* the same _reference_positions and given the same pages one after the
\* other, return the same delta for every page and hold the same
\* _reference_positions after every page.
C15_RelativeIsAuto ==
    fn = "analyze_text_orientation" =>
        /\ value.relative.ret = value.auto.ret
        /\ value.relative.reference = value.auto.reference

\* both started without a reference, captured one and have judged a later
\* page with the comparator: the delta is -90 on both sides
C15_Witness ==
    /\ fn = "analyze_text_orientation"
    /\ args.reference = None
    /\ HasReference(value.relative.reference)
    /\ HasReference(value.auto.reference)
    /\ value.relative.positions # value.relative.reference.list
    /\ value.relative.ret = 0 - 90
    /\ value.auto.ret = 0 - 90

(* --------------------------------- C16 --------------------------------- *)
\* C16: from one controller state (mode and reference), a page whose
\* observation is not empty gets the same suggested delta whichever of the
\* rotations 0, 90, 180, 270 it is shown with, its display spans being the
\* forward rotation of the same native boxes.
C16_RotationIndependent ==
    (fn = "analyze_text_orientation on two rotations"
        /\ value.first.positions # <<>> /\ value.second.positions # <<>>) =>
        value.first.ret = value.second.ret

=============================================================================
